---- MODULE Spec2Model ----
(***************************************************************************)
(* Crossword CSP solver of src/generate.py (class CrosswordCreator):       *)
(* node consistency, AC-3 and backtracking search with the MRV / degree /  *)
(* least-constraining-value heuristics.                                    *)
(*                                                                         *)
(* A puzzle instance (variables, their lengths, the overlap table and the  *)
(* word pool) is what the Crossword object hands to the solver; it is      *)
(* chosen in Init and never changes.  Python's unordered sets and dicts    *)
(* are modelled by nondeterministic iteration orders.                      *)
(***************************************************************************)
EXTENDS Integers, Sequences, FiniteSets, TLC

\* ------------------------------------------------------------------ bounds
NumVars == 3
MaxLen == 2
MaxPool == 3
Letters == {"a", "b"}

\* Python's None
None == "None"

\* every word over Letters of length 1..MaxLen, a word being its letters
AllWords == UNION {[1..n -> Letters] : n \in 1..MaxLen}

VARIABLES
    variables,    \* crossword.variables: the set of Variable objects
    length,       \* Variable.length, per variable
    overlaps,     \* crossword.overlaps[x, y]: None or <<i, j>> (0-based)
    words,        \* crossword.words: the word pool
    domains,      \* self.domains
    pc,           \* where solve() / ac3() / backtrack() stands
    queue,        \* ac3's deque of arcs
    ac3Ret,       \* what the last ac3 call returned: "pending", "True", "False"
    assignment,   \* the dict backtrack works on
    stack,        \* backtrack's call stack: frames [var, values, entry],
                  \* entry being the assignment the call was entered with
    retval,       \* what the backtrack call that just returned gave back
    result,       \* what solve() returned: "running", "None", "assignment"
    btInvoked,    \* backtrack has been called in this run
    run,          \* which ac3 call is running or has last run (1, 2)
    firstDomains, \* self.domains when the first ac3 call returned
    firstRet,     \* what the first ac3 call returned
    outcome       \* how a direct call of consistent() ended

vars == <<variables, length, overlaps, words, domains, pc, queue, ac3Ret,
          assignment, stack, retval, result, btInvoked, run, firstDomains,
          firstRet, outcome>>

instance == <<variables, length, overlaps, words>>

\* ------------------------------------------------------- the puzzle model
\* Variable.direction: a slot runs across or down
Direction(v) == IF v % 2 = 1 THEN "across" ELSE "down"

\* word[i] in Python, i counted from 0
Char(w, i) == w[i + 1]

\* crossword.neighbors(var)
Neighbors(v) == {u \in variables \ {v} : overlaps[<<u, v>>] # None}

\* the pairs of variables that can share a cell: one across, one down
CrossPairs(V) == {p \in V \X V : p[1] < p[2] /\ Direction(p[1]) # Direction(p[2])}

\* The overlap table built from a choice c of the crossing cell of each
\* crossing pair: overlaps[x, y] = (i, j) exactly when overlaps[y, x] = (j, i)
OverlapTable(V, c) ==
    [p \in {q \in V \X V : q[1] # q[2]} |->
        IF p \in DOMAIN c THEN c[p]
        ELSE IF <<p[2], p[1]>> \in DOMAIN c /\ c[<<p[2], p[1]>>] # None
             THEN <<c[<<p[2], p[1]>>][2], c[<<p[2], p[1]>>][1]>>
             ELSE None]

\* An overlap index lies inside both words, and a cell of a slot is shared
\* with at most one other slot
WellFormed(V, len, ov) ==
    /\ \A p \in DOMAIN ov : ov[p] # None =>
          /\ ov[p][1] \in 0..(len[p[1]] - 1)
          /\ ov[p][2] \in 0..(len[p[2]] - 1)
    /\ \A x \in V : \A y, z \in V \ {x} :
          (y # z /\ ov[<<x, y>>] # None /\ ov[<<x, z>>] # None)
              => ov[<<x, y>>][1] # ov[<<x, z>>][1]

Cells == (0..(MaxLen - 1)) \X (0..(MaxLen - 1))

\* ----------------------------------------------------------------- helpers
RECURSIVE Perms(_)
\* every order in which a Python set may be iterated
Perms(S) == IF S = {} THEN {<<>>}
            ELSE UNION {{<<x>> \o p : p \in Perms(S \ {x})} : x \in S}

Range(f) == {f[x] : x \in DOMAIN f}

\* ---------------------------------------------------------------- __init__
\* the puzzle handed to CrosswordCreator(crossword)
InitPuzzle ==
    /\ \E n \in 0..NumVars : variables = 1..n
    /\ length \in [variables -> 1..MaxLen]
    /\ words \in {p \in SUBSET AllWords : Cardinality(p) <= MaxPool}
    /\ \E c \in [CrossPairs(variables) -> {None} \cup Cells] :
          /\ WellFormed(variables, length, OverlapTable(variables, c))
          /\ overlaps = OverlapTable(variables, c)

\* self.crossword and the domains __init__ makes: a copy of the pool each
InitInstance ==
    /\ InitPuzzle
    /\ domains = [v \in variables |-> words]

Init ==
    /\ InitInstance
    /\ pc = "solve"
    /\ queue = <<>>
    /\ ac3Ret = "pending"
    /\ assignment = <<>>
    /\ stack = <<>>
    /\ retval = None
    /\ result = "running"
    /\ btInvoked = FALSE
    /\ run = 1
    /\ firstDomains = domains
    /\ firstRet = "pending"
    /\ outcome = "pending"

\* ------------------------------------------------ enforce_node_consistency
\* a length test that lets longer words through
LengthAtLeast(v, w) == Len(w) >= length[v]

\* len(word) == var.length
LengthMatches(v, w) == Len(w) = length[v]

NodeConsistent(doms) ==
    [v \in DOMAIN doms |-> {w \in doms[v] : LengthMatches(v, w)}]

EnforceNodeConsistency ==
    /\ pc = "solve"
    /\ domains' = NodeConsistent(domains)
    /\ pc' = "arcs"
    /\ UNCHANGED <<instance, outcome, queue, ac3Ret, assignment, stack, retval, result,
                   btInvoked, run, firstDomains, firstRet>>

\* -------------------------------------------------------------------- revise
\* a revise that removes a word as soon as one word of y disagrees with it
WordsToRemoveAnyMismatch(x, y, doms) ==
    IF overlaps[<<x, y>>] = None THEN {}
    ELSE {word \in doms[x] :
            \E w \in doms[y] :
                Char(word, overlaps[<<x, y>>][1]) # Char(w, overlaps[<<x, y>>][2])}

\* words_to_remove: the words of x's domain whose letter at the overlap is
\* the letter of no word of y's domain; nothing when x and y do not overlap
WordsToRemove(x, y, doms) ==
    IF overlaps[<<x, y>>] = None THEN {}
    ELSE LET i == overlaps[<<x, y>>][1]
             j == overlaps[<<x, y>>][2]
             letters_y == {Char(w, j) : w \in doms[y]}
         IN  {word \in doms[x] : Char(word, i) \notin letters_y}

\* a revise working on one set shared by all the variables
ReviseAliased(x, y, doms) ==
    [v \in DOMAIN doms |-> doms[v] \ WordsToRemove(x, y, doms)]

\* a revise that never removes a word
ReviseKeepsWords(x, y, doms) == doms

\* self.domains after revise(x, y)
Revise(x, y, doms) == [doms EXCEPT ![x] = @ \ WordsToRemove(x, y, doms)]

\* a revise that reports a revision whatever it did
RevisedAlways(x, y, doms) == TRUE

\* the value revise(x, y) returns
Revised(x, y, doms) == WordsToRemove(x, y, doms) # {}

\* ----------------------------------------------------------------------- ac3
\* the arcs (x, y) of one x, y running over neighbors(x) in any order
ArcsOf(x) ==
    {[k \in 1..Len(p) |-> <<x, p[k]>>] : p \in Perms(Neighbors(x))}

RECURSIVE ArcsAlong(_)
ArcsAlong(order) ==
    IF order = <<>> THEN {<<>>}
    ELSE {a \o rest : a \in ArcsOf(Head(order)), rest \in ArcsAlong(Tail(order))}

\* [(x, y) for x in self.domains for y in self.crossword.neighbors(x)],
\* under every iteration order of the dict and of the neighbour sets
AllArcs == UNION {ArcsAlong(order) : order \in Perms(variables)}

\* arcs == []
ExplicitlyEmpty(arcs) == arcs = <<>>

\* an ac3 that never puts an arc back on the queue
ReEnqueuedNone(x, y) == {}

\* an ac3 that puts back the arcs of y's neighbours instead of x's
ReEnqueuedOfY(x, y) == Neighbors(y) \ {x}

\* the neighbours z of x whose arc (z, x) is put back on the queue
ReEnqueued(x, y) == Neighbors(x) \ {y}

\* all(len(self.domains[var]) > 0 for var in self.domains)
AllNonEmpty(doms) == \A v \in DOMAIN doms : Cardinality(doms[v]) > 0

\* solve() builds the arcs and calls ac3(arcs), which returns at once on []
Ac3Call ==
    /\ pc = "arcs"
    /\ \E arcs \in AllArcs :
          IF ExplicitlyEmpty(arcs)
          THEN /\ ac3Ret' = "True"
               /\ pc' = "ac3ret"
               /\ queue' = <<>>
          ELSE /\ ac3Ret' = "pending"
               /\ pc' = "ac3"
               /\ queue' = arcs
    /\ UNCHANGED <<instance, outcome, domains, assignment, stack, retval, result,
                   btInvoked, run, firstDomains, firstRet>>

\* one turn of the while loop: popleft, revise, fail or re-enqueue
Ac3Step ==
    /\ pc = "ac3"
    /\ queue # <<>>
    /\ LET x == Head(queue)[1]
           y == Head(queue)[2]
       IN  /\ domains' = Revise(x, y, domains)
           /\ IF Revised(x, y, domains)
              THEN IF domains'[x] = {}
                   THEN /\ ac3Ret' = "False"
                        /\ pc' = "ac3ret"
                        /\ queue' = Tail(queue)
                   ELSE /\ \E zs \in Perms(ReEnqueued(x, y)) :
                              queue' = Tail(queue)
                                         \o [k \in 1..Len(zs) |-> <<zs[k], x>>]
                        /\ UNCHANGED <<ac3Ret, pc>>
              ELSE /\ queue' = Tail(queue)
                   /\ UNCHANGED <<ac3Ret, pc>>
    /\ UNCHANGED <<instance, outcome, assignment, stack, retval, result, btInvoked,
                   run, firstDomains, firstRet>>

\* the queue is empty: return whether every domain is non-empty
Ac3Finish ==
    /\ pc = "ac3"
    /\ queue = <<>>
    /\ ac3Ret' = IF AllNonEmpty(domains) THEN "True" ELSE "False"
    /\ pc' = "ac3ret"
    /\ UNCHANGED <<instance, outcome, domains, queue, assignment, stack, retval, result,
                   btInvoked, run, firstDomains, firstRet>>

\* ------------------------------------------------------ assignment_complete
\* a completeness test written as a subset test
AssignmentCompleteSubset(a) == DOMAIN a \subseteq variables

\* set(assignment.keys()) == self.crossword.variables
AssignmentComplete(a) == DOMAIN a = variables

\* --------------------------------------------------------------- consistent
\* a consistency check that leaves out the overlap comparison
ConsistentNoOverlap(a) ==
    /\ Cardinality(Range(a)) = Cardinality(DOMAIN a)
    /\ \A var \in DOMAIN a : LengthMatches(var, a[var])

\* a consistency check that leaves out the distinctness test
ConsistentNoDistinct(a) ==
    \A var \in DOMAIN a :
        /\ LengthMatches(var, a[var])
        /\ \A neighbor \in Neighbors(var) :
              neighbor \in DOMAIN a =>
                  Char(a[var], overlaps[<<var, neighbor>>][1])
                      = Char(a[neighbor], overlaps[<<var, neighbor>>][2])

\* a distinctness test that counts the words against all the variables
ConsistentCountsAllVariables(a) ==
    /\ Cardinality(Range(a)) = Cardinality(variables)
    /\ \A var \in DOMAIN a :
          /\ LengthMatches(var, a[var])
          /\ \A neighbor \in Neighbors(var) :
                neighbor \in DOMAIN a =>
                    Char(a[var], overlaps[<<var, neighbor>>][1])
                        = Char(a[neighbor], overlaps[<<var, neighbor>>][2])

Consistent(a) ==
    /\ Cardinality(Range(a)) = Cardinality(DOMAIN a)
    /\ \A var \in DOMAIN a :
          /\ LengthMatches(var, a[var])
          /\ \A neighbor \in Neighbors(var) :
                neighbor \in DOMAIN a =>
                    Char(a[var], overlaps[<<var, neighbor>>][1])
                        = Char(a[neighbor], overlaps[<<var, neighbor>>][2])

\* ------------------------------------------- consistent(), step by step
\* a distinctness test that is left out
WordsAllDistinctOff(a) == TRUE

\* len(words_used) != len(assignment) does not hold
WordsAllDistinct(a) == Cardinality(Range(a)) = Cardinality(DOMAIN a)

\* the inner loop's test of one assigned neighbour: assignment[neighbor][j]
\* raises IndexError when the neighbour's word has no position j
NeighborCheck(a, var, neighbor) ==
    LET i == overlaps[<<var, neighbor>>][1]
        j == overlaps[<<var, neighbor>>][2]
    IN  IF j >= Len(a[neighbor]) THEN "IndexError"
        ELSE IF Char(a[var], i) # Char(a[neighbor], j) THEN "False"
        ELSE "ok"

RECURSIVE ConsistentLoop(_, _)
\* the ways the loop over assignment.items() can end, the keys coming in
\* the given order and the neighbours of a key in any order: the first
\* wrong length or failing neighbour ends it
ConsistentLoop(a, order) ==
    IF order = <<>> THEN {"True"}
    ELSE LET var == Head(order)
             checks == {NeighborCheck(a, var, neighbor) :
                           neighbor \in Neighbors(var) \cap DOMAIN a}
         IN  IF ~LengthMatches(var, a[var]) THEN {"False"}
             ELSE IF checks \subseteq {"ok"}
                  THEN ConsistentLoop(a, Tail(order))
                  ELSE checks \ {"ok"}

\* the ways consistent(assignment) can end: "True", "False", "IndexError"
ConsistentOutcomes(a, order) ==
    IF ~WordsAllDistinct(a) THEN {"False"} ELSE ConsistentLoop(a, order)

\* ------------------------------------------------------ order_domain_values
RECURSIVE SumOver(_, _)
\* sum(f[n] for n in S)
SumOver(S, f) ==
    IF S = {} THEN 0
    ELSE LET n == CHOOSE m \in S : TRUE IN f[n] + SumOver(S \ {n}, f)

\* a sort key that counts over the assigned neighbours too
EliminatedAllNeighbors(var, word, a, doms) ==
    SumOver(Neighbors(var),
        [neighbor \in Neighbors(var) |->
            Cardinality({neighbor_word \in doms[neighbor] :
                Char(word, overlaps[<<var, neighbor>>][1])
                    # Char(neighbor_word, overlaps[<<var, neighbor>>][2])})])

\* the sort key of a word: over the unassigned neighbours, the number of
\* words of the neighbour's domain that differ from it at the overlap
Eliminated(var, word, a, doms) ==
    LET open == Neighbors(var) \ DOMAIN a
    IN  SumOver(open,
            [neighbor \in open |->
                Cardinality({neighbor_word \in doms[neighbor] :
                    Char(word, overlaps[<<var, neighbor>>][1])
                        # Char(neighbor_word, overlaps[<<var, neighbor>>][2])})])

\* a value order that keeps only one least-constraining value
OrderDomainValuesBestOnly(var, a, doms) ==
    IF doms[var] = {} THEN {<<>>}
    ELSE {<<w>> : w \in {u \in doms[var] : \A t \in doms[var] :
                    Eliminated(var, u, a, doms) <= Eliminated(var, t, a, doms)}}

\* sorted(self.domains[var], key=...): every order of the set that is
\* ascending in the key (the sort is stable, the set's order is not fixed)
OrderDomainValues(var, a, doms) ==
    {p \in Perms(doms[var]) :
        \A k \in 1..(Len(p) - 1) :
            Eliminated(var, p[k], a, doms) <= Eliminated(var, p[k + 1], a, doms)}

\* ------------------------------------------------ select_unassigned_variable
\* a key that prefers the variable with the fewest neighbours
KeyLessFewestNeighbors(u, v, doms) ==
    \/ Cardinality(doms[u]) < Cardinality(doms[v])
    \/ /\ Cardinality(doms[u]) = Cardinality(doms[v])
       /\ Cardinality(Neighbors(u)) < Cardinality(Neighbors(v))

\* (len(domain), -len(neighbors)) of u is smaller than that of v
KeyLess(u, v, doms) ==
    \/ Cardinality(doms[u]) < Cardinality(doms[v])
    \/ /\ Cardinality(doms[u]) = Cardinality(doms[v])
       /\ Cardinality(Neighbors(u)) > Cardinality(Neighbors(v))

\* the variables min() may return: it returns the first minimal one in the
\* iteration order of the set
SelectUnassignedVariable(a, doms) ==
    LET unassigned == variables \ DOMAIN a
    IN  {v \in unassigned : \A u \in unassigned : ~KeyLess(u, v, doms)}

\* ---------------------------------------------------------------- backtrack
\* assignment[var] = value
Assign(a, var, value) ==
    [v \in DOMAIN a \cup {var} |-> IF v = var THEN value ELSE a[v]]

\* a backtrack that leaves the tried value in the assignment
DeleteNothing(a, var) == a

\* del assignment[var]
Delete(a, var) == [v \in DOMAIN a \ {var} |-> a[v]]

\* truth value of what backtrack returned: None and the empty dict are false
Truthy(r, a) == r # None /\ DOMAIN a # {}

\* a solve() that goes on to search whatever ac3 returned
Ac3SucceededAlways(ret) == TRUE

\* if not self.ac3(arcs): return None
Ac3Succeeded(ret) == ret = "True"

Top == stack[Len(stack)]
Pop == SubSeq(stack, 1, Len(stack) - 1)

\* solve() after ac3 returned: give up, or call backtrack(dict())
SolveAfterAc3 ==
    /\ pc = "ac3ret"
    /\ run = 1
    /\ IF Ac3Succeeded(ac3Ret)
       THEN /\ assignment' = <<>>
            /\ pc' = "btcall"
            /\ UNCHANGED result
       ELSE /\ result' = None
            /\ pc' = "done"
            /\ UNCHANGED assignment
    /\ UNCHANGED <<instance, outcome, domains, queue, ac3Ret, stack, retval, btInvoked,
                   run, firstDomains, firstRet>>

\* entry of backtrack(assignment): return it when complete, else pick the
\* variable and the order of its values
BtCall ==
    /\ pc = "btcall"
    /\ btInvoked' = TRUE
    /\ IF AssignmentComplete(assignment)
       THEN /\ retval' = "assignment"
            /\ pc' = "btret"
            /\ UNCHANGED stack
       ELSE /\ \E var \in SelectUnassignedVariable(assignment, domains) :
               \E values \in OrderDomainValues(var, assignment, domains) :
                  stack' = Append(stack, [var |-> var, values |-> values,
                                         entry |-> assignment])
            /\ pc' = "btloop"
            /\ UNCHANGED retval
    /\ UNCHANGED <<instance, outcome, domains, queue, ac3Ret, assignment, result, run,
                   firstDomains, firstRet>>

\* one turn of the for loop: extend the assignment by the next value and
\* recurse when it is consistent, else take the value out again
BtTry ==
    /\ pc = "btloop"
    /\ Top.values # <<>>
    /\ LET var == Top.var
           value == Head(Top.values)
           extended == Assign(assignment, var, value)
       IN  /\ stack' = [stack EXCEPT ![Len(stack)].values = Tail(@)]
           /\ IF Consistent(extended)
              THEN /\ assignment' = extended
                   /\ pc' = "btcall"
              ELSE /\ assignment' = Delete(extended, var)
                   /\ pc' = "btloop"
    /\ UNCHANGED <<instance, outcome, domains, queue, ac3Ret, retval, result, btInvoked,
                   run, firstDomains, firstRet>>

\* the for loop is over: return None
BtExhausted ==
    /\ pc = "btloop"
    /\ Top.values = <<>>
    /\ stack' = Pop
    /\ retval' = None
    /\ pc' = "btret"
    /\ UNCHANGED <<instance, outcome, domains, queue, ac3Ret, assignment, result,
                   btInvoked, run, firstDomains, firstRet>>

\* a recursive call has returned into the for loop of its caller: pass a
\* result on, or delete the value and go on with the loop
BtResume ==
    /\ pc = "btret"
    /\ stack # <<>>
    /\ IF Truthy(retval, assignment)
       THEN /\ stack' = Pop
            /\ UNCHANGED <<assignment, pc>>
       ELSE /\ assignment' = Delete(assignment, Top.var)
            /\ pc' = "btloop"
            /\ UNCHANGED stack
    /\ UNCHANGED <<instance, outcome, domains, queue, ac3Ret, retval, result, btInvoked,
                   run, firstDomains, firstRet>>

\* the outermost backtrack call has returned: solve() returns its result
SolveReturn ==
    /\ pc = "btret"
    /\ stack = <<>>
    /\ result' = retval
    /\ pc' = "done"
    /\ UNCHANGED <<instance, outcome, domains, queue, ac3Ret, assignment, stack, retval,
                   btInvoked, run, firstDomains, firstRet>>

\* --------------------------------------------------- ac3 called once more
\* a caller runs ac3 over all neighbour arcs again on the domains it left
Ac3Again ==
    /\ pc = "ac3ret"
    /\ run = 1
    /\ run' = 2
    /\ firstDomains' = domains
    /\ firstRet' = ac3Ret
    /\ pc' = "arcs"
    /\ UNCHANGED <<instance, outcome, domains, queue, ac3Ret, assignment, stack, retval,
                   result, btInvoked>>

\* ------------------------------------------------------------ specifications
\* solve()
Next ==
    \/ EnforceNodeConsistency
    \/ Ac3Call
    \/ Ac3Step
    \/ Ac3Finish
    \/ SolveAfterAc3
    \/ BtCall
    \/ BtTry
    \/ BtExhausted
    \/ BtResume
    \/ SolveReturn

Spec == Init /\ [][Next]_vars

\* solve() run by the interpreter: a sequential program that takes its next
\* step whenever it has one
SpecFair == Spec /\ WF_vars(Next)

\* enforce_node_consistency(), then ac3 twice over all neighbour arcs
NextTwice ==
    \/ EnforceNodeConsistency
    \/ Ac3Call
    \/ Ac3Step
    \/ Ac3Finish
    \/ Ac3Again

SpecTwice == Init /\ [][NextTwice]_vars

\* consistent(assignment) called directly on any assignment of pool words
InitConsistent ==
    /\ InitInstance
    /\ assignment \in UNION {[S -> words] : S \in SUBSET variables}
    /\ pc = "consistent"
    /\ queue = <<>>
    /\ ac3Ret = "pending"
    /\ stack = <<>>
    /\ retval = None
    /\ result = "running"
    /\ btInvoked = FALSE
    /\ run = 1
    /\ firstDomains = domains
    /\ firstRet = "pending"
    /\ outcome = "pending"

\* the call, the dict holding its keys in any insertion order
ConsistentCall ==
    /\ pc = "consistent"
    /\ \E order \in Perms(DOMAIN assignment) :
          outcome' \in ConsistentOutcomes(assignment, order)
    /\ pc' = "returned"
    /\ UNCHANGED <<instance, domains, queue, ac3Ret, assignment, stack, retval,
                   result, btInvoked, run, firstDomains, firstRet>>

NextConsistent == ConsistentCall

SpecConsistent == InitConsistent /\ [][NextConsistent]_vars

\* the heuristics called directly: on any domains inside the node-consistent
\* ones and any incomplete assignment of words of these domains
InitHeuristics ==
    /\ InitPuzzle
    /\ \E doms \in [variables -> SUBSET words] :
          /\ \A v \in variables : doms[v] \subseteq NodeConsistent(doms)[v]
          /\ domains = doms
    /\ assignment \in UNION {{a \in [S -> words] : \A v \in S : a[v] \in domains[v]} :
                                S \in (SUBSET variables) \ {variables}}
    /\ pc = "heuristics"
    /\ queue = <<>>
    /\ ac3Ret = "pending"
    /\ stack = <<>>
    /\ retval = None
    /\ result = "running"
    /\ btInvoked = FALSE
    /\ run = 1
    /\ firstDomains = domains
    /\ firstRet = "pending"
    /\ outcome = "pending"

\* select_unassigned_variable(assignment): the variable it returns is kept
\* in a frame, as backtrack keeps it
SelectCall ==
    /\ pc = "heuristics"
    /\ \E var \in SelectUnassignedVariable(assignment, domains) :
          stack' = <<[var |-> var, values |-> <<>>, entry |-> assignment]>>
    /\ pc' = "selected"
    /\ UNCHANGED <<instance, outcome, domains, queue, ac3Ret, assignment,
                   retval, result, btInvoked, run, firstDomains, firstRet>>

\* order_domain_values(var, assignment) for any unassigned variable
OrderCall ==
    /\ pc = "heuristics"
    /\ \E var \in variables \ DOMAIN assignment :
          \E values \in OrderDomainValues(var, assignment, domains) :
              stack' = <<[var |-> var, values |-> values, entry |-> assignment]>>
    /\ pc' = "ordered"
    /\ UNCHANGED <<instance, outcome, domains, queue, ac3Ret, assignment,
                   retval, result, btInvoked, run, firstDomains, firstRet>>

NextHeuristics == SelectCall \/ OrderCall

SpecHeuristics == InitHeuristics /\ [][NextHeuristics]_vars

\* ------------------------------------------------- what a solution is (§1)
\* the three constraints on a partial or complete assignment a: every word
\* has its variable's length, no word is used twice, and crossing words
\* agree on the shared cell
Satisfies(a) ==
    /\ \A v \in DOMAIN a : Len(a[v]) = length[v]
    /\ \A u, v \in DOMAIN a : u # v => a[u] # a[v]
    /\ \A u, v \in DOMAIN a :
          (u # v /\ overlaps[<<u, v>>] # None) =>
              a[u][overlaps[<<u, v>>][1] + 1] = a[v][overlaps[<<u, v>>][2] + 1]

\* f gives every variable a pool word and satisfies the constraints
IsSolution(f) ==
    /\ DOMAIN f = variables
    /\ \A v \in variables : f[v] \in words
    /\ Satisfies(f)

Solvable == \E f \in [variables -> words] : IsSolution(f)

\* the variables for which the pool holds no word of their length
Unservable == {v \in variables : \A w \in words : Len(w) # length[v]}

\* the assignments of exactly the variables V with words of their domains
AssignmentsOver(V, doms) ==
    {a \in [V -> words] : \A u \in V : a[u] \in doms[u]}

\* the partial assignments of the variables V with words of their domains
PartialAssignments(V, doms) ==
    UNION {AssignmentsOver(S, doms) : S \in SUBSET V}

\* the domains enforce_node_consistency makes of the pool
LengthDomains == [v \in variables |-> {w \in words : Len(w) = length[v]}]

\* word w of x has a word of y's domain that agrees with it at the overlap
Supported(x, w, y, doms) ==
    \E u \in doms[y] :
        u[overlaps[<<x, y>>][2] + 1] = w[overlaps[<<x, y>>][1] + 1]

\* every word of every domain is supported in the domain of every neighbour
ArcConsistent(doms) ==
    \A x \in variables : \A y \in Neighbors(x) : \A w \in doms[x] :
        Supported(x, w, y, doms)

RECURSIVE ArcClosure(_)
\* the largest arc-consistent domains inside doms
ArcClosure(doms) ==
    LET kept == [x \in variables |->
                    {w \in doms[x] :
                        \A y \in Neighbors(x) : Supported(x, w, y, doms)}]
    IN  IF kept = doms THEN doms ELSE ArcClosure(kept)

\* f gives every variable a pool word of its length and crossing words agree
\* (the words need not be distinct)
FitsGrid(f) ==
    /\ \A v \in variables : Len(f[v]) = length[v]
    /\ \A u, v \in variables :
          (u # v /\ overlaps[<<u, v>>] # None) =>
              f[u][overlaps[<<u, v>>][1] + 1] = f[v][overlaps[<<u, v>>][2] + 1]

\* the words of the domains of var's neighbours not assigned by a that differ
\* from word at the overlap, each counted with its neighbour
RuledOut(var, word, a) ==
    {p \in (Neighbors(var) \ DOMAIN a) \X words :
        /\ p[2] \in domains[p[1]]
        /\ p[2][overlaps[<<var, p[1]>>][2] + 1]
              # word[overlaps[<<var, p[1]>>][1] + 1]}

\* ------------------------------------------------------------------- claims
\* C1: whenever solve() returns an assignment, its key set is the full set
\* of crossword variables.
C1_ReturnedAssignmentComplete ==
    result = "assignment" => DOMAIN assignment = variables

C1_Witness ==
    result = "assignment" /\ Cardinality(variables) >= 2

\* C2: whenever solve() returns an assignment, every pair of assigned
\* neighbouring variables (v, n) with overlap (i, j) has the i-th character
\* of v's word equal to the j-th character of n's word.
C2_ReturnedOverlapsAgree ==
    result = "assignment" =>
        \A v \in DOMAIN assignment :
            \A n \in Neighbors(v) \cap DOMAIN assignment :
                assignment[v][overlaps[<<v, n>>][1] + 1]
                    = assignment[n][overlaps[<<v, n>>][2] + 1]

C2_Witness ==
    /\ result = "assignment"
    /\ \E v \in DOMAIN assignment : Neighbors(v) \cap DOMAIN assignment # {}

\* C3: whenever solve() returns an assignment, no two distinct variables are
\* assigned the same word.
C3_ReturnedWordsDistinct ==
    result = "assignment" =>
        \A u, v \in DOMAIN assignment : u # v => assignment[u] # assignment[v]

C3_Witness ==
    /\ result = "assignment"
    /\ \E u, v \in DOMAIN assignment :
          u # v /\ assignment[u] \in domains[v]

\* C4: whenever solve() returns an assignment, every variable's word has
\* exactly that variable's length.
C4_ReturnedLengthsExact ==
    result = "assignment" =>
        \A v \in DOMAIN assignment : Len(assignment[v]) = length[v]

C4_Witness ==
    /\ result = "assignment"
    /\ \E v \in DOMAIN assignment : \E w \in words : Len(w) # length[v]

\* C5: under every tie-breaking of the variable selection, every value order
\* and every set iteration order, solve() returns an assignment exactly when
\* the instance has a solution, the assignment returned is one, and it
\* returns None otherwise.
C5_OutcomeIndependentOfHeuristics ==
    pc = "done" =>
        /\ result \in {None, "assignment"}
        /\ (result = "assignment") <=> Solvable
        /\ result = "assignment" => IsSolution(assignment)

\* a solved run in which two variables tied in the selection key and the
\* chosen one had more than one value to order
C5_Witness ==
    /\ pc = "done"
    /\ result = "assignment"
    /\ \E u, v \in variables :
          /\ u # v
          /\ ~KeyLess(u, v, domains)
          /\ ~KeyLess(v, u, domains)
          /\ Cardinality(domains[u]) >= 2

\* C6: if the ac3 call made by solve() returns failure, solve() returns None
\* and backtrack is never invoked in that run.
C6_Ac3FailureSkipsBacktrack ==
    ac3Ret = "False" =>
        /\ ~btInvoked
        /\ pc \in {"ac3ret", "done"}
        /\ pc = "done" => result = None

C6_Witness ==
    pc = "done" /\ ac3Ret = "False" /\ result = None

\* C7: ac3 returns success only if every variable's domain is non-empty when
\* it returns, also when no variable has a neighbour.
C7_Ac3SuccessMeansNonEmpty ==
    (pc = "ac3ret" /\ ac3Ret = "True") =>
        \A v \in variables : domains[v] # {}

\* C8: after ac3 has run over all neighbour arcs, running it again removes
\* no word from any domain and returns the same result.
C8_Ac3Idempotent ==
    run = 2 =>
        /\ domains = firstDomains
        /\ pc = "ac3ret" => ac3Ret = firstRet

\* C8 as amended: the second run returns what the first returned, and
\* removes no word when the first returned success.
C8_Ac3IdempotentOnSuccess ==
    run = 2 =>
        /\ firstRet = "True" => domains = firstDomains
        /\ pc = "ac3ret" => ac3Ret = firstRet

\* a second run that ended after a first run that pruned and succeeded
C8_Witness ==
    /\ run = 2
    /\ pc = "ac3ret"
    /\ firstRet = "True"
    /\ firstDomains # NodeConsistent([v \in variables |-> words])

\* C9: a variable with no neighbours and a non-empty domain can extend any
\* assignment of the other variables that satisfies the constraints by some
\* word of its domain to an assignment consistent() accepts, so solve()
\* never returns None when the other variables can be assigned.
C9_DisconnectedAlwaysExtends ==
    /\ pc = "arcs" =>
          \A v \in variables :
              (Neighbors(v) = {} /\ domains[v] # {}) =>
                  \A a \in PartialAssignments(variables \ {v}, domains) :
                      Satisfies(a) =>
                          \E w \in domains[v] : Consistent(Assign(a, v, w))
    /\ (pc = "done" /\ result = None) =>
          ~ \E v \in variables :
              /\ Neighbors(v) = {}
              /\ domains[v] # {}
              /\ \E a \in AssignmentsOver(variables \ {v},
                                          [u \in variables |-> words]) :
                    Satisfies(a)

\* C9 as amended: such a variable can extend an assignment of the other
\* variables that satisfies the constraints by every word of its domain the
\* assignment does not use, so solve() never returns None when the other
\* variables have such an assignment that leaves a word of its domain unused.
C9_DisconnectedExtendsByUnusedWord ==
    /\ pc = "arcs" =>
          \A v \in variables :
              (Neighbors(v) = {} /\ domains[v] # {}) =>
                  \A a \in PartialAssignments(variables \ {v}, domains) :
                      Satisfies(a) =>
                          \A w \in domains[v] \ Range(a) :
                              Consistent(Assign(a, v, w))
    /\ (pc = "done" /\ result = None) =>
          ~ \E v \in variables :
              /\ Neighbors(v) = {}
              /\ domains[v] # {}
              /\ \E a \in AssignmentsOver(variables \ {v},
                                          [u \in variables |-> words]) :
                    Satisfies(a) /\ domains[v] \ Range(a) # {}

\* a solved run with a disconnected variable next to two crossing ones, a
\* word of its domain being taken by one of them
C9_Witness ==
    /\ pc = "done"
    /\ result = "assignment"
    /\ \E v \in variables :
          /\ Neighbors(v) = {}
          /\ \E u \in variables \ {v} :
                Neighbors(u) # {} /\ assignment[u] \in domains[v]

\* C10: if the pool holds no word of the length some variable requires,
\* solve() returns None, with or without neighbours.
C10_NoWordOfLengthGivesNone ==
    (pc = "done" /\ Unservable # {}) => result = None

\* such a run in which no variable has a neighbour, so that ac3 returned
\* success at once and backtrack found the empty domain
C10_Witness ==
    /\ pc = "done"
    /\ Unservable # {}
    /\ \A v \in variables : Neighbors(v) = {}
    /\ btInvoked
    /\ result = None

\* C11: consistent(assignment) returns true exactly when, for the partial or
\* complete assignment given, the assigned words are pairwise distinct, each
\* has its variable's length and assigned neighbours agree at their overlap;
\* unassigned variables impose nothing.  Where every word has its variable's
\* length, the check backtrack makes gives the same answer.
C11_ConsistentIffConstraintsHold ==
    pc = "returned" =>
        /\ (outcome = "True") <=> Satisfies(assignment)
        /\ (\A v \in DOMAIN assignment : Len(assignment[v]) = length[v]) =>
              (Consistent(assignment) <=> (outcome = "True"))

\* a partial assignment with two crossing words that was accepted
C11_Witness ==
    /\ pc = "returned"
    /\ outcome = "True"
    /\ DOMAIN assignment # variables
    /\ \E v \in DOMAIN assignment : Neighbors(v) \cap DOMAIN assignment # {}

\* C12: after enforce_node_consistency each domain is exactly the set of
\* pool words of the variable's length, and in every later state of ac3 and
\* backtrack every word of a domain has its variable's length.
C12_DomainsHoldWordsOfTheLength ==
    /\ pc = "arcs" => domains = LengthDomains
    /\ pc # "solve" =>
          \A v \in variables : \A w \in domains[v] : Len(w) = length[v]

\* the search running on an instance whose pool held a word of another length
C12_Witness ==
    /\ pc = "btloop"
    /\ \E v \in variables : domains[v] # {} /\ domains[v] # words

\* C13: when ac3 seeded with all neighbour arcs returns success, every word
\* of every variable X has, in the domain of every neighbour Y, a word with
\* the same character at the overlap.
C13_SuccessMeansArcConsistent ==
    (pc = "ac3ret" /\ ac3Ret = "True") => ArcConsistent(domains)

\* a successful run that pruned, on a variable with two neighbours
C13_Witness ==
    /\ pc = "ac3ret"
    /\ ac3Ret = "True"
    /\ domains # LengthDomains
    /\ \E x \in variables : Cardinality(Neighbors(x)) >= 2

\* C14: the result of ac3 does not depend on the order of the arcs: from the
\* same domains, every order of the seed arcs and of the arcs put back gives
\* the same success or failure and, on success, the same domains, namely the
\* largest arc-consistent ones.
C14_Ac3OrderIndependent ==
    pc = "ac3ret" =>
        /\ (ac3Ret = "True") <=>
              \/ \A v \in variables : Neighbors(v) = {}
              \/ \A v \in variables : ArcClosure(LengthDomains)[v] # {}
        /\ ac3Ret = "True" => domains = ArcClosure(LengthDomains)

\* a successful run that pruned on an instance whose arcs come in several
\* orders
C14_Witness ==
    /\ pc = "ac3ret"
    /\ ac3Ret = "True"
    /\ domains # LengthDomains
    /\ Cardinality(AllArcs) >= 2

\* C15: ac3 removes no word that takes part in an assignment of all the
\* variables satisfying the length and overlap constraints, and does not
\* return failure when there is such an assignment.
C15_Ac3KeepsSolutionWords ==
    pc # "solve" =>
        \A f \in [variables -> words] :
            FitsGrid(f) =>
                /\ \A v \in variables : f[v] \in domains[v]
                /\ ac3Ret # "False"

\* a successful run that pruned while an assignment fitting the grid exists
C15_Witness ==
    /\ pc = "ac3ret"
    /\ ac3Ret = "True"
    /\ domains # LengthDomains
    /\ \E f \in [variables -> words] : FitsGrid(f)

\* C16: when backtrack(assignment) returns None the assignment is as it was
\* on entry, and after solve() returned None the working assignment is empty.
C16_FailedBacktrackRestoresAssignment ==
    [][/\ (pc = "btloop" /\ pc' = "btret") => assignment' = Top.entry
       /\ (pc' = "done" /\ result' = None) => assignment' = <<>>]_vars

\* a search that had values to try for every variable and found no solution
C16_Witness ==
    /\ pc = "done"
    /\ result = None
    /\ btInvoked
    /\ Cardinality(variables) >= 2
    /\ \A v \in variables : domains[v] # {}

\* C17: select_unassigned_variable, called on an incomplete assignment,
\* returns an unassigned variable of minimal domain size and, among those, of
\* maximal neighbour count.
C17_SelectsSmallestDomainThenMostNeighbors ==
    pc = "selected" =>
        LET unassigned == variables \ DOMAIN assignment
        IN  /\ Top.var \in unassigned
            /\ \A u \in unassigned :
                  /\ Cardinality(domains[Top.var]) <= Cardinality(domains[u])
                  /\ Cardinality(domains[Top.var]) = Cardinality(domains[u]) =>
                        Cardinality(Neighbors(Top.var)) >= Cardinality(Neighbors(u))

\* a call in which the neighbour count decided between two variables, some
\* third variable being assigned
C17_Witness ==
    /\ pc = "selected"
    /\ assignment # <<>>
    /\ \E u \in variables \ (DOMAIN assignment \cup {Top.var}) :
          /\ Cardinality(domains[u]) = Cardinality(domains[Top.var])
          /\ Cardinality(Neighbors(u)) < Cardinality(Neighbors(Top.var))

\* C18: order_domain_values(var, assignment) returns every word of var's
\* domain exactly once, in an order in which the number of neighbour-domain
\* words ruled out is non-decreasing, counted over the unassigned neighbours
\* only.
C18_ValuesOrderedByWordsRuledOut ==
    pc = "ordered" =>
        /\ Len(Top.values) = Cardinality(domains[Top.var])
        /\ {Top.values[k] : k \in 1..Len(Top.values)} = domains[Top.var]
        /\ \A k \in 1..(Len(Top.values) - 1) :
              Cardinality(RuledOut(Top.var, Top.values[k], assignment))
                  <= Cardinality(RuledOut(Top.var, Top.values[k + 1], assignment))

\* a call that ordered two words ruling out different numbers of words, the
\* variable having an assigned and an unassigned neighbour
C18_Witness ==
    /\ pc = "ordered"
    /\ Neighbors(Top.var) \cap DOMAIN assignment # {}
    /\ Neighbors(Top.var) \ DOMAIN assignment # {}
    /\ Len(Top.values) >= 2
    /\ Cardinality(RuledOut(Top.var, Top.values[1], assignment))
          < Cardinality(RuledOut(Top.var, Top.values[Len(Top.values)], assignment))

\* C19: across every step of ac3 each domain after the step is a subset of
\* the domain before it, and revise(x, y) returns true exactly when x's
\* domain became strictly smaller.
C19_DomainsOnlyShrink ==
    [][pc = "ac3" =>
          /\ \A v \in variables : domains'[v] \subseteq domains[v]
          /\ queue # <<>> =>
                LET x == Head(queue)[1]
                    y == Head(queue)[2]
                IN  Revised(x, y, domains) <=>
                        /\ domains'[x] \subseteq domains[x]
                        /\ domains'[x] # domains[x]]_vars

\* ac3 at work after a revision removed a word
C19_Witness ==
    pc = "ac3" /\ domains # LengthDomains

\* C20: revise(x, y) leaves the domain of every variable other than x, and
\* the word pool, unchanged; backtrack leaves every domain unchanged; every
\* word of a returned assignment is in its variable's domain as ac3 left it.
C20_DomainMutationIsolated ==
    [][/\ (pc = "ac3" /\ queue # <<>>) =>
              /\ \A v \in variables \ {Head(queue)[1]} : domains'[v] = domains[v]
              /\ words' = words
       /\ pc \in {"btcall", "btloop", "btret"} => domains' = domains
       /\ result' = "assignment" =>
              \A v \in DOMAIN assignment' : assignment'[v] \in domains'[v]]_vars

\* a returned assignment after ac3 pruned the domain of one of two
\* variables of the same length
C20_Witness ==
    /\ result = "assignment"
    /\ \E u, v \in variables :
          /\ u # v
          /\ length[u] = length[v]
          /\ domains[u] # domains[v]

\* C21: solve() terminates: ac3 once running returns, its queue growing only
\* in a step that removed a word; backtrack once called returns; the recursion
\* depth (the number of calls suspended under the running one, the call made
\* by solve() being at depth 0) never exceeds the number of variables.
C21_SolveTerminates ==
    /\ <>(pc = "done")
    /\ (pc = "ac3") ~> (pc = "ac3ret")
    /\ (pc = "btcall") ~> (pc = "btret" /\ stack = <<>>)
    /\ [](Len(stack) <= Cardinality(variables))
    /\ [][(pc = "ac3" /\ queue # <<>> /\ queue' # Tail(queue)) =>
              /\ domains'[Head(queue)[1]] \subseteq domains[Head(queue)[1]]
              /\ domains'[Head(queue)[1]] # domains[Head(queue)[1]]]_vars

\* solve() has returned after ac3 removed words and a search over as many
\* variables as the bound allows, every domain non-empty, found nothing
C21_Witness ==
    /\ pc = "done"
    /\ result = None
    /\ btInvoked
    /\ Cardinality(variables) = NumVars
    /\ domains # LengthDomains
    /\ \A v \in variables : domains[v] # {}

====
